---- MODULE Spec2Model ----
(***************************************************************************)
(* Model of modules/weather.py: WeatherModule.handle_weather, its helper   *)
(* WeatherModule.fetch_weather and the module-level parse_weather_input.   *)
(*                                                                         *)
(* A Python str is modelled as a sequence of one-character strings, so     *)
(* that lower(), replace(), strip(), title(), `in` and re.search are       *)
(* computed character by character as CPython computes them.               *)
(* The degree sign and the typographic apostrophe of the message           *)
(* literals are written "deg" and "'" (the module is ASCII).               *)
(***************************************************************************)
EXTENDS Integers, Sequences, FiniteSets, TLC

(***************************************************************************)
(* Bounds of the model.                                                    *)
(***************************************************************************)
\* longest extractor output enumerated exhaustively over GenAlphabet
MaxRawLen == 4
\* longest array of the "daily" block of a forecast response
MaxDays == 2
\* temperatures are enumerated within Margin tenths of a degree of each
\* classification threshold
Margin == 1

(***************************************************************************)
(* Strings.                                                                *)
(***************************************************************************)
Chars(s) == [i \in 1..Len(s) |-> SubSeq(s, i, i)]

LowerLetters == Chars("abcdefghijklmnopqrstuvwxyz")
UpperLetters == Chars("ABCDEFGHIJKLMNOPQRSTUVWXYZ")

LowerSet == { LowerLetters[i] : i \in 1..Len(LowerLetters) }
UpperSet == { UpperLetters[i] : i \in 1..Len(UpperLetters) }

IsLower(c) == c \in LowerSet
IsUpper(c) == c \in UpperSet
IsLetter(c) == IsLower(c) \/ IsUpper(c)
IsSpace(c) == c = " "

ToLower ==
  [c \in UpperSet |->
     LowerLetters[CHOOSE i \in 1..Len(UpperLetters) : UpperLetters[i] = c]]
ToUpper ==
  [c \in LowerSet |->
     UpperLetters[CHOOSE i \in 1..Len(LowerLetters) : LowerLetters[i] = c]]

LowerChar(c) == IF IsUpper(c) THEN ToLower[c] ELSE c
UpperChar(c) == IF IsLower(c) THEN ToUpper[c] ELSE c

\* str.lower()
Lower(s) == [i \in 1..Len(s) |-> LowerChar(s[i])]

\* k occurs in s starting at position i
MatchAt(s, k, i) ==
  /\ i >= 1
  /\ i + Len(k) - 1 <= Len(s)
  /\ \A j \in 1..Len(k) : s[i + j - 1] = k[j]

\* `k in s`
Contains(s, k) == \E i \in 1..(Len(s) + 1) : MatchAt(s, k, i)

\* s.replace(k, ""), k non-empty: one left-to-right pass over s that drops
\* each occurrence it meets and resumes after it
RECURSIVE ReplaceFrom(_, _, _)
ReplaceFrom(s, k, i) ==
  IF i > Len(s) THEN <<>>
  ELSE IF MatchAt(s, k, i) THEN ReplaceFrom(s, k, i + Len(k))
  ELSE <<s[i]>> \o ReplaceFrom(s, k, i + 1)

Replace(s, k) == ReplaceFrom(s, k, 1)

\* for keyword in keywords: s = s.replace(keyword, ""), in list order
RECURSIVE ReplaceEach(_, _, _)
ReplaceEach(s, keywords, n) ==
  IF n > Len(keywords) THEN s
  ELSE ReplaceEach(Replace(s, keywords[n]), keywords, n + 1)

\* str.strip()
RECURSIVE LStrip(_)
LStrip(s) == IF s # <<>> /\ IsSpace(Head(s)) THEN LStrip(Tail(s)) ELSE s

RECURSIVE RStrip(_)
RStrip(s) ==
  IF s # <<>> /\ IsSpace(s[Len(s)]) THEN RStrip(SubSeq(s, 1, Len(s) - 1)) ELSE s

Strip(s) == RStrip(LStrip(s))

\* str.title(): a letter that follows a letter is lowercased, any other
\* letter is uppercased
Title(s) ==
  [i \in 1..Len(s) |->
     IF ~IsLetter(s[i]) THEN s[i]
     ELSE IF i > 1 /\ IsLetter(s[i - 1]) THEN LowerChar(s[i])
     ELSE UpperChar(s[i])]

(***************************************************************************)
(* parse_weather_input                                                     *)
(***************************************************************************)
ParserKeywords ==
  << Chars("weather"), Chars("forecast"), Chars("tomorrow"), Chars("today"),
     Chars("is it"), Chars("will it"), Chars("rain"), Chars("raining"),
     Chars("sunny"), Chars("snow"), Chars("cold"), Chars("hot"),
     Chars("outside"), Chars("be"), Chars("in"), Chars("the") >>

\* variant: the test without user_input.lower()
IsTomorrowCaseSensitive(user_input) ==
  \/ Contains(user_input, Chars("tomorrow"))
  \/ Contains(user_input, Chars("next day"))

\* is_tomorrow = "tomorrow" in user_input or "next day" in user_input,
\* on the lowercased input
IsTomorrow(user_input) ==
  \/ Contains(Lower(user_input), Chars("tomorrow"))
  \/ Contains(Lower(user_input), Chars("next day"))

\* a character of the class [a-zA-Z\s]
IsGroupChar(c) == IsLetter(c) \/ IsSpace(c)

\* the positions where r"in ([a-zA-Z\s]+)" matches
MatchStarts(s) ==
  { i \in 1..Len(s) :
      /\ MatchAt(s, Chars("in "), i)
      /\ i + 3 <= Len(s)
      /\ IsGroupChar(s[i + 3]) }

\* re.search: is there a match
HasMatch(s) == MatchStarts(s) # {}

\* match.group(1) of the leftmost match: the longest run of [a-zA-Z\s]
\* that follows its "in "
MatchGroup(s) ==
  LET i == CHOOSE a \in MatchStarts(s) : \A b \in MatchStarts(s) : a <= b
      last == CHOOSE e \in (i + 3)..Len(s) :
                /\ \A j \in (i + 3)..e : IsGroupChar(s[j])
                /\ (e = Len(s) \/ ~IsGroupChar(s[e + 1]))
  IN  SubSeq(s, i + 3, last)

\* the location parse_weather_input returns: the keyword loop and
\* strip().title() belong to the else branch
ParseLocation(user_input) ==
  LET s == Lower(user_input)
  IN  IF HasMatch(s)
        THEN MatchGroup(s)
        ELSE Title(Strip(ReplaceEach(s, ParserKeywords, 1)))

(***************************************************************************)
(* The location clean-up of handle_weather                                 *)
(***************************************************************************)
SanitizerKeywords ==
  << Chars("weather"), Chars("forecast"), Chars("tomorrow"), Chars("today"),
     Chars("is it"), Chars("will it"), Chars("rain"), Chars("sunny"),
     Chars("in"), Chars("be"), Chars("outside"), Chars("what"), Chars("is"),
     Chars("the"), Chars("of") >>

\* variant: the clean-up without raw_location.lower()
SanitizeNoLower(raw_location) ==
  Title(Strip(ReplaceEach(raw_location, SanitizerKeywords, 1)))

\* lines 159-162: lower(), the replace loop, strip().title()
Sanitize(raw_location) ==
  Title(Strip(ReplaceEach(Lower(raw_location), SanitizerKeywords, 1)))

(***************************************************************************)
(* Messages: the string literals of the code, with the values that fill    *)
(* their placeholders.                                                     *)
(***************************************************************************)
MsgClarify ==
  "Sorry, I couldn't identify the location. Could you rephrase your query?"
MsgNotFound ==
  "Sorry, I couldn't find weather details for '{location}'. Please try the same or another location."
MsgTomorrow ==
  "The weather in {location_name} tomorrow will be {description}, with a high of {temp_max}degC and a low of {temp_min}degC."
MsgTomorrowFailed ==
  "Sorry, I couldn't fetch tomorrow's forecast right now."
MsgCurrent ==
  "The current weather in {location_name} is {weather_description} with a temperature of {temperature}degC ({temperature_description}) and a windspeed of {windspeed} km/h."
MsgNoCurrent ==
  "Sorry, I couldn't fetch the weather details at this time."
MsgFetchError ==
  "An error occurred while fetching weather data: {e}"
MsgHandlerError ==
  "An error occurred while fetching the weather. Please try again later."

\* no value returned (yet)
NoMessage ==
  [ text |-> "", location |-> <<>>, location_name |-> <<>>,
    description |-> "", temperature |-> 0, temperature_description |-> "",
    windspeed |-> 0, temp_max |-> 0, temp_min |-> 0, e |-> "" ]

Plain(text) == [NoMessage EXCEPT !.text = text]

NotFoundMessage(location) ==
  [NoMessage EXCEPT !.text = MsgNotFound, !.location = location]

FetchErrorMessage(e) ==
  [NoMessage EXCEPT !.text = MsgFetchError, !.e = e]

(***************************************************************************)
(* weather_description_fetcher.  fetch_weather calls the function that     *)
(* line 3 imports; the static method of the class is its copy in this      *)
(* file.                                                                   *)
(***************************************************************************)
weather_description_fetcher(code) ==
  CASE code = 0 -> "Clear sky"
    [] code = 1 -> "Mainly clear"
    [] code = 2 -> "Partly cloudy"
    [] code = 3 -> "Overcast"
    [] code = 45 -> "Foggy"
    [] code = 48 -> "Depositing rime fog"
    [] code = 51 -> "Light drizzle"
    [] code = 53 -> "Moderate drizzle"
    [] code = 55 -> "Dense drizzle"
    [] code = 61 -> "Slight rain"
    [] code = 63 -> "Moderate rain"
    [] code = 65 -> "Heavy rain"
    [] code = 71 -> "Slight snow"
    [] code = 73 -> "Moderate snow"
    [] code = 75 -> "Heavy snow"
    [] code = 80 -> "Rain showers"
    [] code = 81 -> "Moderate rain showers"
    [] code = 82 -> "Heavy rain showers"
    [] code = 95 -> "Thunderstorm"
    [] code = 96 -> "Thunderstorm with hail"
    [] OTHER -> "Unknown conditions"

(***************************************************************************)
(* Temperatures are fixed-point numbers in tenths of a degree.             *)
(***************************************************************************)
HotAbove == 30
ColdBelow == 15
Degrees(n) == n * 10

\* variant: the comparisons made inclusive
TemperatureDescriptionInclusive(temperature) ==
  IF temperature >= Degrees(HotAbove) THEN "hot"
  ELSE IF temperature <= Degrees(ColdBelow) THEN "cold"
  ELSE "moderate"

\* "hot" if temperature > 30 else "cold" if temperature < 15 else "moderate"
TemperatureDescription(temperature) ==
  IF temperature > Degrees(HotAbove) THEN "hot"
  ELSE IF temperature < Degrees(ColdBelow) THEN "cold"
  ELSE "moderate"

(***************************************************************************)
(* HTTP responses.  status is what requests.get, raise_for_status and      *)
(* json() do: "ok", or the exception one of them raises.  json() raises a  *)
(* JSONDecodeError that is a RequestException in requests >= 2.27 and a    *)
(* plain ValueError before; both are outcomes of the same source.          *)
(***************************************************************************)
JsonErrorNew == "JSONDecodeError(RequestException)"
JsonErrorOld == "JSONDecodeError(ValueError)"
Statuses == {"ok", "ConnectionError", "HTTPError", JsonErrorNew, JsonErrorOld}

\* variant: fetch_weather without raise_for_status()
RaisesRequestExceptionNoStatusCheck(status) ==
  status \in {"ConnectionError", JsonErrorNew}

\* the statuses `except requests.exceptions.RequestException` catches
RaisesRequestException(status) ==
  status \in {"ConnectionError", "HTTPError", JsonErrorNew}

\* what a step of fetch_weather does next
Return(message) == [kind |-> "return", value |-> message]
Raise == [kind |-> "raise", value |-> NoMessage]
Continue == [kind |-> "continue", value |-> NoMessage]

\* ---- geocoding ----
NoEntry ==
  [complete |-> FALSE, latitude |-> 0, longitude |-> 0, name |-> <<>>]
PuneEntry ==
  [complete |-> TRUE, latitude |-> 18, longitude |-> 73, name |-> Chars("Pune")]
DelhiEntry ==
  [complete |-> TRUE, latitude |-> 28, longitude |-> 77, name |-> Chars("Delhi")]

NoGeocodeData == [has_results |-> FALSE, results |-> <<>>]

GeocodeData ==
  { NoGeocodeData,
    [has_results |-> TRUE, results |-> <<>>],
    [has_results |-> TRUE, results |-> <<PuneEntry>>],
    [has_results |-> TRUE, results |-> <<PuneEntry, DelhiEntry>>],
    [has_results |-> TRUE, results |-> <<NoEntry>>] }

GeocodeResponses ==
  { [status |-> st, data |-> NoGeocodeData] : st \in Statuses \ {"ok"} }
    \cup { [status |-> "ok", data |-> d] : d \in GeocodeData }

GeocodeNotSent == [status |-> "not sent", data |-> NoGeocodeData]

\* variant: the test without the length check
NoResultsKeyOnly(geocode_data) == ~geocode_data.has_results

\* "results" not in geocode_data or len(geocode_data["results"]) == 0
NoResults(geocode_data) ==
  ~geocode_data.has_results \/ Len(geocode_data.results) = 0

\* python indexing, from 0
At(list, i) == list[i + 1]

\* fetch_weather up to the choice of weather_url
GeocodeStep(location, geocode_response) ==
  IF RaisesRequestException(geocode_response.status)
    THEN Return(FetchErrorMessage(geocode_response.status))
  ELSE IF geocode_response.status # "ok" THEN Raise
  ELSE IF NoResults(geocode_response.data)
    THEN Return(NotFoundMessage(location))
  ELSE IF \/ Len(geocode_response.data.results) = 0
          \/ ~At(geocode_response.data.results, 0).complete
    THEN Raise
  ELSE Continue

\* ---- forecast ----
DailyQuery == "daily=temperature_2m_max,temperature_2m_min,weathercode&timezone=auto"
CurrentQuery == "current_weather=true"

WeatherQuery(is_tomorrow) == IF is_tomorrow THEN DailyQuery ELSE CurrentQuery

Absent == [present |-> FALSE, vals |-> <<>>]
Array(full, n) == [present |-> TRUE, vals |-> SubSeq(full, 1, n)]
Arrays(full) == {Absent} \cup {Array(full, n) : n \in 0..MaxDays}

DayCodes(tomorrow) == [i \in 1..MaxDays |-> IF i = 2 THEN tomorrow ELSE 3]
DayMax == [i \in 1..MaxDays |-> 27 + 2 * i]
DayMin == [i \in 1..MaxDays |-> 18 + 2 * i]

NoDaily ==
  [weathercode |-> Absent, temperature_2m_max |-> Absent,
   temperature_2m_min |-> Absent]
NoCurrent ==
  [has_temperature |-> FALSE, temperature |-> 0, has_windspeed |-> FALSE,
   windspeed |-> 0, has_weathercode |-> FALSE, weathercode |-> 0]

NoWeatherData ==
  [has_daily |-> FALSE, daily |-> NoDaily,
   has_current |-> FALSE, current |-> NoCurrent]

DailyData ==
  {NoWeatherData} \cup
  { [NoWeatherData EXCEPT !.has_daily = TRUE,
       !.daily = [weathercode |-> c, temperature_2m_max |-> hi,
                  temperature_2m_min |-> lo]] :
      c \in Arrays(DayCodes(61)) \cup Arrays(DayCodes(7)),
      hi \in Arrays(DayMax), lo \in Arrays(DayMin) }

Temperatures ==
  { Degrees(ColdBelow) + d : d \in (-Margin)..Margin }
    \cup { Degrees(HotAbove) + d : d \in (-Margin)..Margin }
    \cup { Degrees(10), Degrees(20), Degrees(32) }

CurrentData ==
  {NoWeatherData} \cup
  { [NoWeatherData EXCEPT !.has_current = TRUE,
       !.current = [NoCurrent EXCEPT !.has_windspeed = TRUE, !.windspeed = 12]],
    [NoWeatherData EXCEPT !.has_current = TRUE,
       !.current = [NoCurrent EXCEPT !.has_temperature = TRUE,
                                     !.temperature = Degrees(20)]] }
  \cup
  { [NoWeatherData EXCEPT !.has_current = TRUE,
       !.current = [has_temperature |-> TRUE, temperature |-> t,
                    has_windspeed |-> TRUE, windspeed |-> 12,
                    has_weathercode |-> code # -1, weathercode |-> code]] :
      t \in Temperatures, code \in {-1, 0, 7} }

WeatherResponses(is_tomorrow) ==
  { [status |-> st, data |-> NoWeatherData] : st \in Statuses \ {"ok"} }
    \cup { [status |-> "ok", data |-> d] :
             d \in IF is_tomorrow THEN DailyData ELSE CurrentData }

WeatherNotSent == [status |-> "not sent", data |-> NoWeatherData]

\* daily["<key>"][1] evaluates: the key is there and the list has an
\* element 1
Indexable(array) == array.present /\ Len(array.vals) > 1

\* the body of the inner try of the tomorrow branch runs to its return
TomorrowParses(weather_data) ==
  /\ weather_data.has_daily
  /\ Indexable(weather_data.daily.weathercode)
  /\ Indexable(weather_data.daily.temperature_2m_max)
  /\ Indexable(weather_data.daily.temperature_2m_min)

TomorrowMessage(location_name, daily) ==
  [NoMessage EXCEPT
     !.text = MsgTomorrow,
     !.location_name = location_name,
     !.description = weather_description_fetcher(At(daily.weathercode.vals, 1)),
     !.temp_max = At(daily.temperature_2m_max.vals, 1),
     !.temp_min = At(daily.temperature_2m_min.vals, 1)]

\* variant: the tomorrow branch without its inner try
OnTomorrowParseErrorPropagate == Raise

\* the inner `except Exception` of the tomorrow branch
OnTomorrowParseError == Return(Plain(MsgTomorrowFailed))

CurrentMessage(location_name, current_weather) ==
  [NoMessage EXCEPT
     !.text = MsgCurrent,
     !.location_name = location_name,
     !.description =
        weather_description_fetcher(
          IF current_weather.has_weathercode
            THEN current_weather.weathercode ELSE -1),
     !.temperature = current_weather.temperature,
     !.temperature_description =
        TemperatureDescription(current_weather.temperature),
     !.windspeed = current_weather.windspeed]

\* fetch_weather from the forecast request on
ForecastStep(location_name, is_tomorrow, weather_response) ==
  IF RaisesRequestException(weather_response.status)
    THEN Return(FetchErrorMessage(weather_response.status))
  ELSE IF weather_response.status # "ok" THEN Raise
  ELSE IF is_tomorrow
    THEN IF TomorrowParses(weather_response.data)
           THEN Return(TomorrowMessage(location_name,
                                       weather_response.data.daily))
           ELSE OnTomorrowParseError
  ELSE IF weather_response.data.has_current
    THEN IF /\ weather_response.data.current.has_temperature
            /\ weather_response.data.current.has_windspeed
           THEN Return(CurrentMessage(location_name,
                                      weather_response.data.current))
           ELSE Raise
  ELSE Return(Plain(MsgNoCurrent))

(***************************************************************************)
(* Inputs.                                                                 *)
(***************************************************************************)
UserInputs ==
  { Chars("Will it rain in Pune tomorrow?"),
    Chars("weather in Pune"),
    Chars("What is the weather in Pune"),
    Chars("Pune next day"),
    Chars("TOMORROW Delhi"),
    Chars("hot today"),
    Chars("Delhi") }

\* what extract_location may return: any string
GenAlphabet == {"i", "n"}
RawLocations ==
  { Chars("What is the weather in Pune"),
    Chars("Pune"),
    Chars("Berlin"),
    Chars("the weather"),
    Chars(" New Delhi "),
    Chars("toofday"),
    Chars("Is It Rain") }
  \cup UNION { [1..n -> GenAlphabet] : n \in 0..MaxRawLen }

(***************************************************************************)
(* State: one invocation of handle_weather at a time.                      *)
(***************************************************************************)
VARIABLES
  pc,                \* where handle_weather is: "idle", "extract", "geocode",
                     \* "forecast", "done"
  user_input,        \* the argument of handle_weather
  parsed_location,   \* the first component of parse_weather_input's result
  is_tomorrow,       \* the second one
  raw_location,      \* what extract_location returned
  location,          \* the cleaned-up location
  extract_calls,     \* calls of extract_location in this invocation
  gets,              \* the requests.get calls of this invocation, in order
  geocode_response,
  weather_response,
  result,            \* the value handle_weather returned
  escaped            \* how far an exception went: "none", "fetch_weather"
                     \* (caught in handle_weather), "handle_weather" (reached
                     \* the caller)

vars ==
  << pc, user_input, parsed_location, is_tomorrow, raw_location, location,
     extract_calls, gets, geocode_response, weather_response, result, escaped >>

GeocodeGet(name) ==
  [url |-> "https://geocoding-api.open-meteo.com/v1/search", name |-> name,
   latitude |-> 0, longitude |-> 0, query |-> ""]

WeatherGet(latitude, longitude, query) ==
  [url |-> "https://api.open-meteo.com/v1/forecast", name |-> <<>>,
   latitude |-> latitude, longitude |-> longitude, query |-> query]

Init ==
  /\ pc = "idle"
  /\ user_input = <<>>
  /\ parsed_location = <<>>
  /\ is_tomorrow = FALSE
  /\ raw_location = <<>>
  /\ location = <<>>
  /\ extract_calls = 0
  /\ gets = <<>>
  /\ geocode_response = GeocodeNotSent
  /\ weather_response = WeatherNotSent
  /\ result = NoMessage
  /\ escaped = "none"

\* variant: handle_weather without the check of the location
LocationIdentifiedAlways(loc) == TRUE

\* `if not location`, negated
LocationIdentified(loc) == loc # <<>>

\* variant: a failed geocoding request is sent again
AfterGeocodeRetry(step) ==
  IF step.kind = "continue" THEN "forecast"
  ELSE IF step.value.text = MsgFetchError THEN "geocode"
  ELSE "done"

\* where handle_weather goes after the geocoding part of fetch_weather
AfterGeocode(step) == IF step.kind = "continue" THEN "forecast" ELSE "done"

\* the try/except of handle_weather around fetch_weather
Response(step) ==
  IF step.kind = "raise" THEN Plain(MsgHandlerError) ELSE step.value

\* handle_weather up to the call of extract_location
Start(u) ==
  /\ pc = "idle"
  /\ pc' = "extract"
  /\ user_input' = u
  /\ parsed_location' = ParseLocation(u)
  /\ is_tomorrow' = IsTomorrow(u)
  /\ UNCHANGED << raw_location, location, extract_calls, gets,
                  geocode_response, weather_response, result, escaped >>

\* extract_location raises: nothing in handle_weather catches it
ExtractRaises ==
  /\ pc = "extract"
  /\ pc' = "done"
  /\ extract_calls' = extract_calls + 1
  /\ escaped' = "handle_weather"
  /\ UNCHANGED << user_input, parsed_location, is_tomorrow, raw_location,
                  location, gets, geocode_response, weather_response, result >>

\* extract_location returns raw; the clean-up and the check of the result
ExtractReturns(raw) ==
  /\ pc = "extract"
  /\ extract_calls' = extract_calls + 1
  /\ raw_location' = raw
  /\ location' = Sanitize(raw)
  /\ IF LocationIdentified(Sanitize(raw))
       THEN /\ pc' = "geocode"
            /\ result' = result
       ELSE /\ pc' = "done"
            /\ result' = Plain(MsgClarify)
  /\ UNCHANGED << user_input, parsed_location, is_tomorrow, gets,
                  geocode_response, weather_response, escaped >>

\* fetch_weather: the geocoding request and what follows it up to the
\* forecast request
Geocode(response) ==
  /\ pc = "geocode"
  /\ gets' = Append(gets, GeocodeGet(location))
  /\ geocode_response' = response
  /\ LET step == GeocodeStep(location, response)
     IN  /\ pc' = AfterGeocode(step)
         /\ result' = IF step.kind = "continue" THEN result ELSE Response(step)
         /\ escaped' = IF step.kind = "raise" THEN "fetch_weather" ELSE escaped
  /\ UNCHANGED << user_input, parsed_location, is_tomorrow, raw_location,
                  location, extract_calls, weather_response >>

\* fetch_weather: the forecast request and the message made of its response
Forecast(response) ==
  /\ pc = "forecast"
  /\ LET first == At(geocode_response.data.results, 0)
         step == ForecastStep(first.name, is_tomorrow, response)
     IN  /\ gets' = Append(gets, WeatherGet(first.latitude, first.longitude,
                                            WeatherQuery(is_tomorrow)))
         /\ result' = Response(step)
         /\ escaped' = IF step.kind = "raise" THEN "fetch_weather" ELSE escaped
  /\ weather_response' = response
  /\ pc' = "done"
  /\ UNCHANGED << user_input, parsed_location, is_tomorrow, raw_location,
                  location, extract_calls, geocode_response >>

\* the invocation is over; the next one starts from nothing
Finish ==
  /\ pc = "done"
  /\ pc' = "idle"
  /\ user_input' = <<>>
  /\ parsed_location' = <<>>
  /\ is_tomorrow' = FALSE
  /\ raw_location' = <<>>
  /\ location' = <<>>
  /\ extract_calls' = 0
  /\ gets' = <<>>
  /\ geocode_response' = GeocodeNotSent
  /\ weather_response' = WeatherNotSent
  /\ result' = NoMessage
  /\ escaped' = "none"

Next ==
  \/ \E u \in UserInputs : Start(u)
  \/ ExtractRaises
  \/ \E raw \in RawLocations : ExtractReturns(raw)
  \/ \E response \in GeocodeResponses : Geocode(response)
  \/ \E response \in WeatherResponses(is_tomorrow) : Forecast(response)
  \/ Finish

Spec == Init /\ [][Next]_vars

(***************************************************************************)
(* Properties.                                                             *)
(***************************************************************************)
GeocodingUrl == "https://geocoding-api.open-meteo.com/v1/search"
ForecastUrl == "https://api.open-meteo.com/v1/forecast"

GetsTo(url) == Cardinality({ i \in 1..Len(gets) : gets[i].url = url })

\* extract_location has returned in this invocation
Extracted == extract_calls > 0 /\ escaped # "handle_weather"

\* C1: an empty cleaned-up location ends the invocation with the
\* clarification message and without any request, and no geocoding request
\* ever carries an empty name.
C1_EmptyLocationShortCircuits ==
  /\ \A i \in 1..Len(gets) :
       gets[i].url = GeocodingUrl => gets[i].name # <<>>
  /\ (pc # "extract" /\ Extracted /\ location = <<>>) =>
       /\ pc = "done"
       /\ result = Plain(MsgClarify)
       /\ gets = <<>>

C1_Witness ==
  /\ pc = "done"
  /\ raw_location = Chars("the weather")
  /\ location = <<>>
  /\ result.text = MsgClarify
  /\ gets = <<>>

\* C2: a finished invocation has returned a message and no exception has
\* reached the caller.
C2_NeverPropagates ==
  pc = "done" => (escaped # "handle_weather" /\ result.text # "")

\* C3: a geocoding response without "results", or with an empty list, makes
\* the invocation return the not-found message naming the queried location,
\* and no forecast request is issued.
C3_NoResultsNotFound ==
  ( /\ geocode_response.status = "ok"
    /\ \/ ~geocode_response.data.has_results
       \/ geocode_response.data.results = <<>> ) =>
    /\ pc = "done"
    /\ result = NotFoundMessage(location)
    /\ location # <<>>
    /\ escaped = "none"
    /\ GetsTo(ForecastUrl) = 0

C3_Witness ==
  /\ pc = "done"
  /\ geocode_response.status = "ok"
  /\ geocode_response.data.has_results
  /\ geocode_response.data.results = <<>>
  /\ result.text = MsgNotFound
  /\ result.location = Chars("Rl")

\* C4 as stated, for the invocations in which the extractor returned: a
\* finished invocation has called the extractor, the geocoding endpoint and
\* the forecast endpoint exactly once each.
C4_ExactlyOnce ==
  (pc = "done" /\ Extracted) =>
    /\ extract_calls = 1
    /\ GetsTo(GeocodingUrl) = 1
    /\ GetsTo(ForecastUrl) = 1

\* C4 amended: no call is ever made twice in an invocation; a finished
\* invocation has called the extractor once, the geocoding endpoint once
\* iff the extractor returned a location that cleans up to a non-empty
\* string, and the forecast endpoint once iff geocoding gave a usable first
\* result.
C4_AtMostOnce ==
  /\ extract_calls <= 1
  /\ GetsTo(GeocodingUrl) <= 1
  /\ GetsTo(ForecastUrl) <= 1
  /\ Len(gets) = GetsTo(GeocodingUrl) + GetsTo(ForecastUrl)
  /\ pc = "done" =>
       /\ extract_calls = 1
       /\ GetsTo(GeocodingUrl) = 1 <=> (Extracted /\ location # <<>>)
       /\ GetsTo(ForecastUrl) = 1 <=>
            /\ geocode_response.status = "ok"
            /\ geocode_response.data.has_results
            /\ geocode_response.data.results # <<>>
            /\ geocode_response.data.results[1].complete

C4_Witness ==
  /\ pc = "done"
  /\ geocode_response.status = "ConnectionError"
  /\ extract_calls = 1
  /\ GetsTo(GeocodingUrl) = 1
  /\ GetsTo(ForecastUrl) = 0

TransportFailures == {"ConnectionError", "HTTPError"}

\* C5: a network error or an HTTP error status on either request ends the
\* invocation with the fetch-error message carrying the cause, returned by
\* fetch_weather itself; after a failed geocoding request there is no
\* forecast request.
C5_TransportFailureMessage ==
  /\ geocode_response.status \in TransportFailures =>
       /\ pc = "done"
       /\ result = FetchErrorMessage(geocode_response.status)
       /\ escaped = "none"
       /\ GetsTo(ForecastUrl) = 0
  /\ weather_response.status \in TransportFailures =>
       /\ pc = "done"
       /\ result = FetchErrorMessage(weather_response.status)
       /\ escaped = "none"
       /\ GetsTo(ForecastUrl) = 1

C5_Witness ==
  /\ pc = "done"
  /\ geocode_response.status = "ok"
  /\ weather_response.status = "HTTPError"
  /\ result.text = MsgFetchError
  /\ result.e = "HTTPError"

ShortOrMissing(array) == ~array.present \/ Len(array.vals) < 2

MalformedDaily(data) ==
  \/ ~data.has_daily
  \/ ShortOrMissing(data.daily.weathercode)
  \/ ShortOrMissing(data.daily.temperature_2m_max)
  \/ ShortOrMissing(data.daily.temperature_2m_min)

\* C6: on the tomorrow path a response without "daily", without one of the
\* three arrays, or with an array of fewer than two entries gives the
\* tomorrow apology, returned by fetch_weather without any exception
\* leaving it.
C6_TomorrowParseErrorLocal ==
  ( /\ is_tomorrow
    /\ weather_response.status = "ok"
    /\ MalformedDaily(weather_response.data) ) =>
    /\ pc = "done"
    /\ result = Plain(MsgTomorrowFailed)
    /\ escaped = "none"

C6_Witness ==
  /\ pc = "done"
  /\ is_tomorrow
  /\ weather_response.status = "ok"
  /\ weather_response.data.has_daily
  /\ weather_response.data.daily.weathercode.present
  /\ Len(weather_response.data.daily.weathercode.vals) = 2
  /\ weather_response.data.daily.temperature_2m_max.present
  /\ Len(weather_response.data.daily.temperature_2m_max.vals) = 1
  /\ result.text = MsgTomorrowFailed

AsksTomorrow ==
  \/ Contains(Lower(user_input), Chars("tomorrow"))
  \/ Contains(Lower(user_input), Chars("next day"))

\* C7: with a geocoding result and a well-formed forecast response, the
\* tomorrow sentence (entry 1 of each daily array) is returned and the daily
\* request issued exactly when the lowercased input contains "tomorrow" or
\* "next day"; otherwise the current-conditions sentence is returned and
\* the current_weather request issued.
C7_TomorrowIffAsked ==
  (pc = "done" /\ weather_response.status = "ok") =>
    LET first == geocode_response.data.results[1]
        daily == weather_response.data.daily
        current == weather_response.data.current
        asked == AsksTomorrow
    IN  /\ Len(gets) = 2
        /\ gets[2].url = ForecastUrl
        /\ gets[2].latitude = first.latitude
        /\ gets[2].longitude = first.longitude
        /\ gets[2].query = DailyQuery <=> asked
        /\ gets[2].query = CurrentQuery <=> ~asked
        /\ (asked /\ ~MalformedDaily(weather_response.data)) =>
             /\ result.text = MsgTomorrow
             /\ result.location_name = first.name
             /\ result.description =
                  weather_description_fetcher(daily.weathercode.vals[2])
             /\ result.temp_max = daily.temperature_2m_max.vals[2]
             /\ result.temp_min = daily.temperature_2m_min.vals[2]
        /\ ( /\ ~asked
             /\ weather_response.data.has_current
             /\ current.has_temperature
             /\ current.has_windspeed ) =>
             /\ result.text = MsgCurrent
             /\ result.location_name = first.name
             /\ result.temperature = current.temperature
             /\ result.windspeed = current.windspeed
        /\ result.text = MsgTomorrow => asked
        /\ result.text = MsgCurrent => ~asked

C7_Witness ==
  /\ pc = "done"
  /\ user_input = Chars("TOMORROW Delhi")
  /\ result.text = MsgTomorrow
  /\ result.description = "Slight rain"
  /\ result.temp_max = 31
  /\ result.temp_min = 22
  /\ gets[2].query = DailyQuery

\* C8: the class in the current-conditions sentence is "hot" exactly above
\* 30 degrees, "cold" exactly below 15 degrees and "moderate" from 15 to 30
\* degrees inclusive (temperatures in tenths of a degree).
C8_TemperatureClass ==
  result.text = MsgCurrent =>
    LET t == weather_response.data.current.temperature
        class == result.temperature_description
    IN  /\ result.temperature = t
        /\ class \in {"hot", "cold", "moderate"}
        /\ class = "hot" <=> t > 300
        /\ class = "cold" <=> t < 150
        /\ class = "moderate" <=> (t >= 150 /\ t <= 300)

C8_Witness ==
  /\ pc = "done"
  /\ result.text = MsgCurrent
  /\ result.temperature = 300
  /\ result.temperature_description = "moderate"

\* the string after the first n entries of the stoplist have been removed
\* from the lowercased raw location
Stage(raw, n) == ReplaceEach(Lower(raw), SubSeq(SanitizerKeywords, 1, n), 1)

\* a is b with some characters deleted
RECURSIVE IsSubsequence(_, _)
IsSubsequence(a, b) ==
  IF a = <<>> THEN TRUE
  ELSE IF b = <<>> THEN FALSE
  ELSE IF Head(a) = Head(b) THEN IsSubsequence(Tail(a), Tail(b))
  ELSE IsSubsequence(a, Tail(b))

\* C9: the clean-up lowercases the extractor's string, removes the
\* occurrences of each stoplist entry wherever they are (inside words too),
\* trims and title-cases; "What is the weather in Pune" becomes "Pune".
\* Stated of the state in which extract_location has just returned and the
\* clean-up has run; raw_location and location do not change afterwards.
C9_Sanitizer ==
  (Extracted /\ gets = <<>>) =>
    /\ raw_location = Chars("What is the weather in Pune") =>
         location = Chars("Pune")
    /\ raw_location = Chars("Berlin") => location = Chars("Rl")
    /\ raw_location = Chars(" New Delhi ") => location = Chars("New Delhi")
    /\ raw_location = Chars("Is It Rain") => location = <<>>
    /\ raw_location = Chars("inin") => location = <<>>
    \* each pass deletes copies of its entry and nothing else, and deletes
    \* at least one when there is one
    /\ \A n \in 1..Len(SanitizerKeywords) :
         LET before == Stage(raw_location, n - 1)
             after == Stage(raw_location, n)
             k == SanitizerKeywords[n]
         IN  /\ IsSubsequence(after, before)
             /\ (Len(before) - Len(after)) % Len(k) = 0
             /\ Contains(before, k) <=> Len(after) < Len(before)
    \* trimmed and title-cased
    /\ Lower(location) =
         Strip(Stage(raw_location, Len(SanitizerKeywords)))
    /\ location # <<>> =>
         (~IsSpace(location[1]) /\ ~IsSpace(location[Len(location)]))
    /\ \A i \in 1..Len(location) :
         /\ IsLetter(location[i]) =>
              (IsUpper(location[i]) <=>
                 (i = 1 \/ ~IsLetter(location[i - 1])))
         /\ ~IsLetter(location[i]) =>
              location[i] = Strip(Stage(raw_location,
                                        Len(SanitizerKeywords)))[i]

C9_Witness ==
  /\ pc = "geocode"
  /\ gets = <<>>
  /\ raw_location = Chars("What is the weather in Pune")
  /\ location = Chars("Pune")

\* C10: when the pattern matches, the location parse_weather_input returns
\* is the captured group trimmed and title-cased; the stoplist is applied
\* only when the pattern does not match.
C10_ParsedLocation ==
  pc # "idle" =>
    LET s == Lower(user_input)
    IN  /\ HasMatch(s) => parsed_location = Title(Strip(MatchGroup(s)))
        /\ ~HasMatch(s) =>
             parsed_location = Title(Strip(ReplaceEach(s, ParserKeywords, 1)))

====
